---- MODULE Spec2Model ----
(***************************************************************************)
(* read_pipeline (src/read_pipelines.py): reads one Azure Data Factory     *)
(* pipeline file and appends a Markdown rendering of it to a Markdown file.*)
(*                                                                         *)
(* Text.  A Python str is a sequence of pieces, each piece a TLA+ string.  *)
(* A literal of a template is one piece; in a value read from the JSON     *)
(* document every space character is a piece " " of its own, so that       *)
(* str.replace(' ', x) acts on it piece by piece.  Concatenation is \o.    *)
(* The three-backquote Markdown fence is the piece Fence (the character is *)
(* not accepted inside a TLA+ string).                                     *)
(*                                                                         *)
(* JSON.  An object is a function whose domain is its set of keys, so a    *)
(* missing key is a key outside the DOMAIN; an array is a sequence.  The   *)
(* 'parameters' object, whose iteration order matters, is the sequence of  *)
(* its <<key, value>> items in document order.                             *)
(***************************************************************************)
EXTENDS Integers, Sequences, FiniteSets, TLC

\* ------------------------------------------------------------------ bounds
MaxActs   == 2   \* activities per pipeline
MaxDeps   == 2   \* dependsOn entries per activity
MaxParams == 2   \* parameters per pipeline
MaxCalls  == 2   \* calls of read_pipeline on the same two files

\* ------------------------------------------------------------ text helpers
Fence == "[3 backquotes]"
None  == <<"None">>

\* str.replace(old, new) for a one-character old
Replace(s, old, new) == [k \in DOMAIN s |-> IF s[k] = old THEN new ELSE s[k]]

\* key in obj
Has(obj, key) == key \in DOMAIN obj

\* mutant: a missing key renders as the empty string
GetOrEmpty(obj, key) == IF key \in DOMAIN obj THEN obj[key] ELSE <<>>

\* dict.get(key): the value, or None rendered by an f-string
Get(obj, key) == IF Has(obj, key) THEN obj[key] ELSE None

SeqsUpTo(S, n) == UNION {[1..k -> S] : k \in 0..n}

\* ------------------------------------------------------- the input domain
EmptyObject == [k \in {} |-> {}]

GoodSource == [type |-> <<"AzureSqlSource">>,
               sqlReaderQuery |-> [value |-> <<"SELECT", " ", "1">>]]

\* what 'typeProperties' of an activity can look like
TypeProperties ==
  { [source |-> GoodSource],
    [source |-> [type |-> <<"AzureSqlSource">>]],
    EmptyObject }

BadDependency == [activity |-> <<"B">>, dependencyConditions |-> << >>]

Dependencies ==
  { [activity |-> <<"Load", " ", "Data">>,
     dependencyConditions |-> << <<"Succeeded">>, <<"Failed">> >>],
    [activity |-> <<"B">>, dependencyConditions |-> << <<"Completed">> >>],
    BadDependency }

\* a list of dependencies names an entry once
DependsOnLists ==
  {s \in SeqsUpTo(Dependencies, MaxDeps) :
     \A a, b \in DOMAIN s : s[a] = s[b] => a = b}

Activities ==
  \* an activity that is no Copy, with every list of dependencies
  { [name |-> <<"Run", " ", "Job">>, type |-> <<"Wait">>, dependsOn |-> d] :
      d \in DependsOnLists }
  \* an activity without the key 'dependsOn'
  \cup { [name |-> <<"B">>, type |-> <<"Wait">>,
          description |-> <<"waits">>] }
  \* a Copy activity with every shape of typeProperties, and without the key
  \cup { [name |-> <<"Load", " ", "Data">>, type |-> <<"Copy">>,
          description |-> <<"loads">>, dependsOn |-> <<>>,
          typeProperties |-> t] : t \in TypeProperties }
  \cup { [name |-> <<"Load", " ", "Data">>, type |-> <<"Copy">>,
          dependsOn |-> <<>>] }
  \* a Copy activity with a dependency
  \cup { [name |-> <<"Load", " ", "Data">>, type |-> <<"Copy">>,
          dependsOn |-> <<[activity |-> <<"B">>,
                           dependencyConditions |-> << <<"Completed">> >>]>>,
          typeProperties |-> [source |-> GoodSource]] }

\* the activities of a pipeline have distinct names (spec, section 3)
ActivityLists ==
  {s \in SeqsUpTo(Activities, MaxActs) :
     \A a, b \in DOMAIN s : s[a]["name"] = s[b]["name"] => a = b}

Parameters ==
  { <<<<"windowStart">>,
      [type |-> <<"String">>, defaultValue |-> <<"2021-01-01">>]>>,
    <<<<"retries">>, [type |-> <<"Int">>]>> }

\* the keys of a JSON object are distinct
ParameterMaps ==
  {s \in SeqsUpTo(Parameters, MaxParams) :
     \A a, b \in DOMAIN s : s[a][1] = s[b][1] => a = b}

Opt(key, values) == {EmptyObject} \cup {key :> v : v \in values}

PropertiesObjects ==
  { d @@ a @@ p :
      d \in Opt("description", {<<"nightly", " ", "load">>}),
      a \in Opt("activities", ActivityLists),
      p \in Opt("parameters", ParameterMaps) }

Documents ==
  { [properties |-> [activities |-> <<>>]],
    [name |-> <<"P">>] }
  \cup { [name |-> <<"P">>, properties |-> p] : p \in PropertiesObjects }

PipelineFiles ==
  { [state |-> "missing", data |-> EmptyObject],
    [state |-> "garbled", data |-> EmptyObject] }
  \cup { [state |-> "json", data |-> d] : d \in Documents }

\* what the Markdown file holds before the first call
MarkdownFiles == { <<>>, <<"# Pipelines\n">> }

NoError == [type |-> "none", line |-> 0]

\* ---------------------------------------------------------------- state
VARIABLES
  pipeline_file,   \* the file at pipeline_file_name
  markdown_file,   \* the text of the file at markdown_file_name, on disk
  md,              \* the handle: "unopened", "open" or "closed"
  md_buffer,       \* text written to md and not yet on disk
  mermaid_code,    \* the diagram text accumulated so far
  pc,              \* the line read_pipeline executes next
  act_index,       \* position of the for loop over activities
  dep_index,       \* position of the for loop over dependsOn
  raised,          \* the exception that left read_pipeline and its line
  calls,           \* calls of read_pipeline so far
  before           \* before[c]: the text of markdown_file when call c began

vars == <<pipeline_file, markdown_file, md, md_buffer, mermaid_code, pc,
          act_index, dep_index, raised, calls, before>>

Init ==
  /\ pipeline_file \in PipelineFiles
  /\ markdown_file \in MarkdownFiles
  /\ md = "unopened"
  /\ md_buffer = <<>>
  /\ mermaid_code = <<>>
  /\ pc = "idle"
  /\ act_index = 0
  /\ dep_index = 0
  /\ raised = NoError
  /\ calls = 0
  /\ before = <<>>

\* ---------------------------------------------------------- derived state
pipelines_data == pipeline_file.data

\* properties = pipelines_data.get('properties', {})
properties ==
  IF Has(pipelines_data, "properties") THEN pipelines_data["properties"]
  ELSE EmptyObject

\* the element the for loop over activities is at
act == properties["activities"][act_index]

\* ------------------------------------------------------------ the templates
\* md.write('\n\n ## %s \n' % pipelines_data['name'])
Heading(data) == <<"\n\n ## ">> \o data["name"] \o <<" \n">>

\* mutant: the 'Steps' heading is written before the description
DescriptionLinesStepsFirst(props) ==
  <<"\n\n ### Steps \n">>
  \o <<"\n **Description:** ">> \o props["description"] \o <<" \n">>

\* the pipeline description and the 'Steps' heading
DescriptionLines(props) ==
  <<"\n **Description:** ">> \o props["description"] \o <<" \n">>
  \o <<"\n\n ### Steps \n">>

\* mermaid_code = "```mermaid\ngraph LR;\n"
MermaidBegin == <<Fence, "mermaid\ngraph LR;\n">>

\* mutant: the Description line is left for after the dependencies
ActivityLinesWithoutDescription(a) ==
  <<"\n - **Name:** ">> \o a["name"] \o <<" \n">>
  \o <<"\n   **Type:** ">> \o a["type"] \o <<" \n">>

\* the Name and Type lines of an activity, and its Description line
ActivityLines(a) ==
  <<"\n - **Name:** ">> \o a["name"] \o <<" \n">>
  \o <<"\n   **Type:** ">> \o a["type"] \o <<" \n">>
  \o IF Has(a, "description")
       THEN <<"\n   **Description:** ">> \o a["description"] \o <<" \n">>
       ELSE <<>>

\* mutant: the node is declared with the name as it is
DiagramNodeRaw(activity_name) ==
  activity_name \o <<"(">> \o activity_name \o <<");\n">>

\* f"{activity_name.replace(' ', '_')}({activity_name});\n"
DiagramNode(activity_name) ==
  Replace(activity_name, " ", "_") \o <<"(">> \o activity_name \o <<");\n">>

\* mutant: the last condition is shown instead of the first
DependencyLineLastCondition(d) ==
  <<"\n   * [">> \o d["activity"] \o <<"](">>
  \o <<"#">> \o Replace(d["activity"], " ", "-")
  \o <<") (">>
  \o d["dependencyConditions"][Len(d["dependencyConditions"])] \o <<") \n">>

\* '\n   * [{0}]({1}) ({2}) \n'.format(...)
DependencyLine(d) ==
  <<"\n   * [">> \o d["activity"] \o <<"](">>
  \o <<"#">> \o Replace(d["activity"], " ", "-")
  \o <<") (">> \o d["dependencyConditions"][1] \o <<") \n">>

\* f"{dep['activity'].replace(' ', '_')} --> {activity_name.replace(' ', '_')};\n"
DiagramEdge(d, activity_name) ==
  Replace(d["activity"], " ", "_") \o <<" --> ">>
  \o Replace(activity_name, " ", "_") \o <<";\n">>

\* mutant: every activity is taken for a Copy
IsCopyAlways(a) == TRUE

\* act['type'] == "Copy"
IsCopy(a) == a["type"] = <<"Copy">>

\* md.write(f'\n   **Data Source Type:** {source_info_type} \n')
SourceTypeLine(source_info) ==
  <<"\n   **Data Source Type:** ">> \o source_info["type"] \o <<" \n">>

\* the 'SQL Statement' label and the fenced query
SqlLines(source_info) ==
  <<"\n   **SQL Statement:**  \n">>
  \o <<"\n   ", Fence, "SQL \n   ">> \o source_info["sqlReaderQuery"]["value"]
  \o <<" \n   ", Fence>>

\* the heading of the diagram and the diagram
DiagramLines(code) ==
  <<"\n\n ### Activities Diagram \n">> \o <<"\n ">> \o code

\* the heading of the table of parameters and its two header rows
ParameterHeader ==
  <<"\n\n ### Parameters \n">>
  \o <<"\n | Name | Type | Default Value |">>
  \o <<"\n |---|---|---|">>

\* for parameter, info in parameters.items(): the rows of the table
RECURSIVE ParameterRows(_)
ParameterRows(items) ==
  IF items = <<>> THEN <<>>
  ELSE LET parameter_name == Head(items)[1]
           info == Head(items)[2]
       IN <<"\n |">> \o parameter_name \o <<"|">> \o Get(info, "type")
          \o <<"|">> \o Get(info, "defaultValue") \o <<"|">>
          \o ParameterRows(Tail(items))

\* mutant: the file is opened with mode 'w', which empties it
OpenForWrite(text) == <<>>

\* open(markdown_file_name, 'a') keeps what the file holds
OpenForAppend(text) == text

\* ------------------------------------------------------------- the steps
\* md.write(text): the text goes to the buffer of the handle, and when the
\* buffer is full what it holds goes to the file
Write(text) ==
  \E full \in BOOLEAN :
    IF full
      THEN /\ markdown_file' = markdown_file \o md_buffer \o text
           /\ md_buffer' = <<>>
      ELSE /\ md_buffer' = md_buffer \o text
           /\ UNCHANGED markdown_file

\* no md.write
NoWrite == UNCHANGED <<markdown_file, md_buffer>>

\* mutant: the exception is caught and the call goes on to md.close()
RaiseCaught(exception, line) ==
  /\ pc' = "close"
  /\ raised' = raised

\* an exception leaves read_pipeline at a line: nothing catches it and
\* md.close() is skipped
Raise(exception, line) ==
  /\ pc' = "raised"
  /\ raised' = [type |-> exception, line |-> line]

\* md = open(markdown_file_name, 'a')
OpenMarkdown ==
  /\ pc \in {"idle", "returned", "raised"}
  /\ md # "open"
  /\ calls < MaxCalls
  /\ calls' = calls + 1
  /\ before' = Append(before, markdown_file)
  /\ markdown_file' = OpenForAppend(markdown_file)
  /\ md' = "open"
  /\ md_buffer' = <<>>
  /\ mermaid_code' = <<>>
  /\ act_index' = 0
  /\ dep_index' = 0
  /\ raised' = NoError
  /\ pc' = "open_json"
  /\ UNCHANGED pipeline_file

\* open(pipeline_file_name), json.load, and the heading with the name
LoadJson ==
  /\ pc = "open_json"
  /\ IF pipeline_file.state = "missing"
       THEN Raise("FileNotFoundError", 48) /\ NoWrite
     ELSE IF pipeline_file.state = "garbled"
       THEN Raise("JSONDecodeError", 49) /\ NoWrite
     ELSE IF ~Has(pipelines_data, "name")
       THEN Raise("KeyError", 50) /\ NoWrite
     ELSE /\ Write(Heading(pipelines_data))
          /\ pc' = "description"
          /\ UNCHANGED raised
  /\ UNCHANGED <<pipeline_file, md, mermaid_code, act_index,
                 dep_index, calls, before>>

\* if 'description' in properties; the diagram is begun
Description ==
  /\ pc = "description"
  /\ IF Has(properties, "description")
       THEN Write(DescriptionLines(properties))
       ELSE NoWrite
  /\ mermaid_code' = MermaidBegin
  /\ pc' = "for_act"
  /\ UNCHANGED <<pipeline_file, md, act_index, dep_index,
                 raised, calls, before>>

\* for act in properties['activities']: the next activity, if there is one,
\* with its Name and Type lines, its node and its Description line
ForActivity ==
  /\ pc = "for_act"
  /\ IF ~Has(properties, "activities")
       THEN /\ Raise("KeyError", 68)
            /\ NoWrite /\ UNCHANGED <<mermaid_code, act_index>>
     ELSE IF act_index = Len(properties["activities"])
       THEN /\ pc' = "diagram"
            /\ NoWrite /\ UNCHANGED <<mermaid_code, act_index, raised>>
     ELSE LET a == properties["activities"][act_index + 1] IN
          /\ act_index' = act_index + 1
          /\ IF ~Has(a, "name")
               THEN Raise("KeyError", 70) /\ NoWrite /\ UNCHANGED mermaid_code
             ELSE IF ~Has(a, "type")
               THEN Raise("KeyError", 71) /\ NoWrite /\ UNCHANGED mermaid_code
             ELSE /\ Write(ActivityLines(a))
                  /\ mermaid_code' = mermaid_code \o DiagramNode(a["name"])
                  /\ pc' = "dependencies"
                  /\ UNCHANGED raised
  /\ dep_index' = 0
  /\ UNCHANGED <<pipeline_file, md, calls, before>>

\* if len(act['dependsOn']) > 0: the 'Dependencies' label
DependsOn ==
  /\ pc = "dependencies"
  /\ IF ~Has(act, "dependsOn")
       THEN Raise("KeyError", 84) /\ NoWrite
     ELSE IF Len(act["dependsOn"]) > 0
       THEN /\ Write(<<"\n   **Dependencies:**">>)
            /\ pc' = "for_dep"
            /\ UNCHANGED raised
     ELSE /\ pc' = "copy"
          /\ NoWrite /\ UNCHANGED raised
  /\ UNCHANGED <<pipeline_file, md, mermaid_code, act_index,
                 dep_index, calls, before>>

\* for dep in act['dependsOn']: the next dependency line and edge
ForDependency ==
  /\ pc = "for_dep"
  /\ IF dep_index = Len(act["dependsOn"])
       THEN /\ pc' = "copy"
            /\ NoWrite /\ UNCHANGED <<mermaid_code, dep_index, raised>>
     ELSE LET d == act["dependsOn"][dep_index + 1] IN
          /\ dep_index' = dep_index + 1
          /\ IF ~Has(d, "activity") \/ ~Has(d, "dependencyConditions")
               THEN Raise("KeyError", 87) /\ NoWrite /\ UNCHANGED mermaid_code
             ELSE IF Len(d["dependencyConditions"]) = 0
               THEN Raise("IndexError", 87) /\ NoWrite /\ UNCHANGED mermaid_code
             ELSE /\ Write(DependencyLine(d))
                  /\ mermaid_code' = mermaid_code \o DiagramEdge(d, act["name"])
                  /\ pc' = "for_dep"
                  /\ UNCHANGED raised
  /\ UNCHANGED <<pipeline_file, md, act_index, calls, before>>

\* if act['type'] == "Copy": the source type and the SQL statement
Copy ==
  /\ pc = "copy"
  /\ IF ~IsCopy(act)
       THEN /\ pc' = "for_act"
            /\ NoWrite /\ UNCHANGED raised
     ELSE IF \/ ~Has(act, "typeProperties")
             \/ ~Has(act["typeProperties"], "source")
       THEN Raise("KeyError", 93) /\ NoWrite
     ELSE LET source_info == act["typeProperties"]["source"] IN
          IF ~Has(source_info, "type")
            THEN Raise("KeyError", 94) /\ NoWrite
          ELSE IF \/ ~Has(source_info, "sqlReaderQuery")
                  \/ ~Has(source_info["sqlReaderQuery"], "value")
            THEN Write(SourceTypeLine(source_info)) /\ Raise("KeyError", 98)
          ELSE /\ Write(SourceTypeLine(source_info) \o SqlLines(source_info))
               /\ pc' = "for_act"
               /\ UNCHANGED raised
  /\ UNCHANGED <<pipeline_file, md, mermaid_code, act_index,
                 dep_index, calls, before>>

\* the diagram is ended and written under its heading
Diagram ==
  /\ pc = "diagram"
  /\ mermaid_code' = mermaid_code \o <<" ", Fence>>
  /\ Write(DiagramLines(mermaid_code'))
  /\ pc' = "parameters"
  /\ UNCHANGED <<pipeline_file, md, act_index, dep_index,
                 raised, calls, before>>

\* if 'parameters' in properties: the table of parameters
ParametersTable ==
  /\ pc = "parameters"
  /\ IF Has(properties, "parameters")
       THEN Write(ParameterHeader \o ParameterRows(properties["parameters"]))
       ELSE NoWrite
  /\ pc' = "close"
  /\ UNCHANGED <<pipeline_file, md, mermaid_code, act_index,
                 dep_index, raised, calls, before>>

\* md.close(): the buffer goes to disk and the handle is released
Close ==
  /\ pc = "close"
  /\ markdown_file' = markdown_file \o md_buffer
  /\ md_buffer' = <<>>
  /\ md' = "closed"
  /\ pc' = "returned"
  /\ UNCHANGED <<pipeline_file, mermaid_code, act_index, dep_index, raised,
                 calls, before>>

\* mutant: the text in the buffer of the abandoned handle is lost
FinalizeWithoutFlush ==
  /\ pc = "raised"
  /\ md = "open"
  /\ md_buffer' = <<>>
  /\ md' = "closed"
  /\ UNCHANGED <<pipeline_file, markdown_file, mermaid_code, pc, act_index,
                 dep_index, raised, calls, before>>

\* after an exception the handle is still open; the interpreter flushes and
\* closes it when the caller lets go of the exception and its frames
Finalize ==
  /\ pc = "raised"
  /\ md = "open"
  /\ markdown_file' = markdown_file \o md_buffer
  /\ md_buffer' = <<>>
  /\ md' = "closed"
  /\ UNCHANGED <<pipeline_file, mermaid_code, pc, act_index, dep_index,
                 raised, calls, before>>

Next ==
  \/ OpenMarkdown
  \/ LoadJson
  \/ Description
  \/ ForActivity
  \/ DependsOn
  \/ ForDependency
  \/ Copy
  \/ Diagram
  \/ ParametersTable
  \/ Close
  \/ Finalize

Spec == Init /\ [][Next]_vars

TypeOK ==
  /\ md \in {"unopened", "open", "closed"}
  /\ calls \in 0..MaxCalls
  /\ Len(before) = calls
  /\ pc \in {"idle", "open_json", "description", "for_act", "dependencies",
             "for_dep", "copy", "diagram", "parameters", "close", "returned",
             "raised"}
  /\ (pc = "raised") = (raised # NoError)

\* ================================================================ claims
\* The text the claims speak of: what the Markdown file holds once the
\* buffer of the handle has reached it, and the part of it the current call
\* has appended.
Out == markdown_file \o md_buffer

Appended == SubSeq(Out, Len(before[calls]) + 1, Len(Out))

IsPrefix(s, t) == Len(s) <= Len(t) /\ SubSeq(t, 1, Len(s)) = s

Suffix(t, n) == SubSeq(t, Len(t) - n + 1, Len(t))

EndsWith(t, s) == Len(s) <= Len(t) /\ Suffix(t, Len(s)) = s

Count(piece, text) == Cardinality({k \in DOMAIN text : text[k] = piece})

RECURSIVE Flatten(_)
Flatten(texts) ==
  IF texts = <<>> THEN <<>> ELSE Head(texts) \o Flatten(Tail(texts))

\* The shape section 3 of the specification asks of a pipeline.
WellFormedDependency(d) ==
  /\ Has(d, "activity")
  /\ Has(d, "dependencyConditions")
  /\ Len(d["dependencyConditions"]) > 0

CompleteSource(a) ==
  /\ Has(a, "typeProperties")
  /\ Has(a["typeProperties"], "source")
  /\ Has(a["typeProperties"]["source"], "type")
  /\ Has(a["typeProperties"]["source"], "sqlReaderQuery")
  /\ Has(a["typeProperties"]["source"]["sqlReaderQuery"], "value")

WellFormedActivity(a) ==
  /\ Has(a, "name")
  /\ Has(a, "type")
  /\ Has(a, "dependsOn")
  /\ \A k \in DOMAIN a["dependsOn"] : WellFormedDependency(a["dependsOn"][k])
  /\ a["type"] = <<"Copy">> => CompleteSource(a)

WellFormed(data) ==
  /\ pipeline_file.state = "json"
  /\ Has(data, "name")
  /\ Has(data, "properties")
  /\ Has(data["properties"], "activities")
  /\ \A k \in DOMAIN data["properties"]["activities"] :
       WellFormedActivity(data["properties"]["activities"][k])

\* The sections of section 4.1 of the specification, written out.
Underscored(s) == [k \in 1..Len(s) |-> IF s[k] = " " THEN "_" ELSE s[k]]

Hyphenated(s) == [k \in 1..Len(s) |-> IF s[k] = " " THEN "-" ELSE s[k]]

DiagramHeading == "\n\n ### Activities Diagram \n"

ParametersHeading == "\n\n ### Parameters \n"

DependenciesLabel == "\n   **Dependencies:**"

SourceTypeLabel == "\n   **Data Source Type:** "

ExpectedHeading(data) == <<"\n\n ## ">> \o data["name"] \o <<" \n">>

ExpectedDescription(props) ==
  IF Has(props, "description")
    THEN <<"\n **Description:** ">> \o props["description"]
         \o <<" \n", "\n\n ### Steps \n">>
    ELSE <<>>

ExpectedHead(a) ==
  <<"\n - **Name:** ">> \o a["name"] \o <<" \n", "\n   **Type:** ">>
  \o a["type"] \o <<" \n">>
  \o IF Has(a, "description")
       THEN <<"\n   **Description:** ">> \o a["description"] \o <<" \n">>
       ELSE <<>>

ExpectedDependencyLine(d) ==
  <<"\n   * [">> \o d["activity"] \o <<"](", "#">> \o Hyphenated(d["activity"])
  \o <<") (">> \o Head(d["dependencyConditions"]) \o <<") \n">>

ExpectedDependencyLines(deps) ==
  Flatten([k \in 1..Len(deps) |-> ExpectedDependencyLine(deps[k])])

ExpectedDependencies(a) ==
  IF Len(a["dependsOn"]) > 0
    THEN <<DependenciesLabel>> \o ExpectedDependencyLines(a["dependsOn"])
    ELSE <<>>

ExpectedSourceType(a) ==
  <<SourceTypeLabel>> \o a["typeProperties"]["source"]["type"] \o <<" \n">>

ExpectedCopy(a) ==
  IF a["type"] = <<"Copy">>
    THEN ExpectedSourceType(a)
         \o <<"\n   **SQL Statement:**  \n", "\n   ", Fence, "SQL \n   ">>
         \o a["typeProperties"]["source"]["sqlReaderQuery"]["value"]
         \o <<" \n   ", Fence>>
    ELSE <<>>

ExpectedEntry(a) ==
  ExpectedHead(a) \o ExpectedDependencies(a) \o ExpectedCopy(a)

ExpectedEntries(acts) ==
  Flatten([k \in 1..Len(acts) |-> ExpectedEntry(acts[k])])

ExpectedNode(a) ==
  Underscored(a["name"]) \o <<"(">> \o a["name"] \o <<");\n">>

ExpectedEdge(d, a) ==
  Underscored(d["activity"]) \o <<" --> ">> \o Underscored(a["name"])
  \o <<";\n">>

ExpectedEdges(deps, a) ==
  Flatten([k \in 1..Len(deps) |-> ExpectedEdge(deps[k], a)])

\* one node per activity, each followed by the edges that point to it
ExpectedGraph(acts) ==
  Flatten([k \in 1..Len(acts) |->
             ExpectedNode(acts[k]) \o ExpectedEdges(acts[k]["dependsOn"], acts[k])])

ExpectedBlock(acts) ==
  <<Fence, "mermaid\ngraph LR;\n">> \o ExpectedGraph(acts) \o <<" ", Fence>>

ExpectedDiagram(acts) ==
  <<DiagramHeading, "\n ">> \o ExpectedBlock(acts)

ExpectedCell(info, key) == IF Has(info, key) THEN info[key] ELSE <<"None">>

ExpectedRow(item) ==
  <<"\n |">> \o item[1] \o <<"|">> \o ExpectedCell(item[2], "type") \o <<"|">>
  \o ExpectedCell(item[2], "defaultValue") \o <<"|">>

ExpectedParameters(props) ==
  IF Has(props, "parameters")
    THEN <<ParametersHeading, "\n | Name | Type | Default Value |",
           "\n |---|---|---|">>
         \o Flatten([k \in 1..Len(props["parameters"]) |->
                       ExpectedRow(props["parameters"][k])])
    ELSE <<>>

ExpectedRender(data) ==
  ExpectedHeading(data)
  \o ExpectedDescription(data["properties"])
  \o ExpectedEntries(data["properties"]["activities"])
  \o ExpectedDiagram(data["properties"]["activities"])
  \o ExpectedParameters(data["properties"])

\* the activities the loop has left behind
Earlier == SubSeq(properties["activities"], 1, act_index - 1)

\* the text before the entry of the current activity
ExpectedSoFar ==
  ExpectedHeading(pipelines_data) \o ExpectedDescription(properties)
  \o ExpectedEntries(Earlier)

InCall == calls >= 1 /\ pc # "open_json"

\* --------------------------------------------------------------------- C1
\* C1: a call that completes has appended exactly the heading, the
\* description with the 'Steps' heading (when there is a description), the
\* entries of the activities in document order, the diagram and the table of
\* parameters (when there are parameters), in this order, and while it runs
\* on a well-formed pipeline what it has appended is a prefix of that text.
C1_SectionsInOrder ==
  /\ pc \in {"close", "returned"} =>
       /\ WellFormed(pipelines_data)
       /\ Appended = ExpectedRender(pipelines_data)
  /\ calls >= 1 /\ WellFormed(pipelines_data) =>
       IsPrefix(Appended, ExpectedRender(pipelines_data))

C1_Witness ==
  /\ pc = "returned"
  /\ Has(properties, "description")
  /\ Has(properties, "parameters")
  /\ Len(properties["parameters"]) > 0
  /\ Len(properties["activities"]) >= 2
  /\ \E k \in DOMAIN properties["activities"] :
       Len(properties["activities"][k]["dependsOn"]) > 0
  /\ \E k \in DOMAIN properties["activities"] :
       properties["activities"][k]["type"] = <<"Copy">>

\* --------------------------------------------------------------------- C2
\* C2: whenever a call has ended, by returning or by an exception, the
\* handle md has been closed.
C2_ClosedOnEveryExit ==
  pc \in {"returned", "raised"} => md = "closed"

\* --------------------------------------------------------------------- C3
\* C3: what the file held when a call began stays a prefix of the file, and
\* two completed calls on the same pipeline, the first on an empty file,
\* leave the text of the first call followed by the same text again.
C3_PureAppend ==
  /\ calls >= 1 => IsPrefix(before[calls], markdown_file)
  /\ pc = "returned" /\ calls = 2 /\ before[1] = <<>> =>
       markdown_file = before[2] \o before[2]

C3_Witness ==
  /\ pc = "returned"
  /\ calls = 2
  /\ before[1] = <<>>
  /\ Len(before[2]) > 0
  /\ Len(properties["activities"]) >= 1

\* --------------------------------------------------------------------- C4
\* the pipeline file gives no document with a name
InputError ==
  pipeline_file.state # "json" \/ ~Has(pipelines_data, "name")

\* C4: when the pipeline file cannot be opened or parsed, or has no 'name',
\* the call ends with the exception of line 48, 49 or 50, and although the
\* handle was opened the call has appended no text: the file is as it was.
C4_InputErrorWritesNothing ==
  InCall /\ InputError =>
    /\ pc = "raised"
    /\ raised = (IF pipeline_file.state = "missing"
                   THEN [type |-> "FileNotFoundError", line |-> 48]
                 ELSE IF pipeline_file.state = "garbled"
                   THEN [type |-> "JSONDecodeError", line |-> 49]
                 ELSE [type |-> "KeyError", line |-> 50])
    /\ md # "unopened"
    /\ md_buffer = <<>>
    /\ markdown_file = before[calls]

C4_Witness ==
  /\ InCall
  /\ pipeline_file.state = "json"
  /\ ~Has(pipelines_data, "name")
  /\ md = "closed"
  /\ Len(markdown_file) > 0

\* --------------------------------------------------------------------- C5
\* the text a call has appended when it fails at a line after line 50
ExpectedAtFailure ==
  IF raised.line = 68 THEN
    ExpectedHeading(pipelines_data) \o ExpectedDescription(properties)
  ELSE IF raised.line = 87 THEN
    ExpectedSoFar \o ExpectedHead(act) \o <<DependenciesLabel>>
    \o ExpectedDependencyLines(SubSeq(act["dependsOn"], 1, dep_index - 1))
  ELSE IF raised.line \in {93, 94} THEN
    ExpectedSoFar \o ExpectedHead(act) \o ExpectedDependencies(act)
  ELSE
    ExpectedSoFar \o ExpectedHead(act) \o ExpectedDependencies(act)
    \o ExpectedSourceType(act)

\* what in the document makes the call fail at that line
FailureCause ==
  IF raised.line = 68 THEN
    raised.type = "KeyError" /\ ~Has(properties, "activities")
  ELSE IF raised.line = 87 THEN
    /\ raised.type = "IndexError"
    /\ act["dependsOn"][dep_index]["dependencyConditions"] = <<>>
  ELSE
    /\ raised.type = "KeyError"
    /\ act["type"] = <<"Copy">>
    /\ ~CompleteSource(act)

\* C5: a call that fails after the heading (no 'activities', a dependency
\* with no condition, a Copy activity with an incomplete source) ends with
\* the exception, the text written up to the failure stays appended (the
\* heading, the description, the entries of the earlier activities and the
\* lines of the failing one), and neither the diagram nor the table of
\* parameters is written; an activity the loop has left behind is well
\* formed.
C5_PartialOutputStays ==
  /\ calls >= 1 /\ pc = "raised" /\ raised.line \in {68, 87, 93, 94, 98} =>
       /\ FailureCause
       /\ Appended = ExpectedAtFailure
       /\ Count(DiagramHeading, Appended) = 0
       /\ Count(ParametersHeading, Appended) = 0
  /\ InCall /\ ~InputError /\ pc # "description" =>
       IF ~Has(properties, "activities")
         THEN \/ pc = "for_act" /\ act_index = 0
              \/ pc = "raised" /\ raised.line = 68
         ELSE \A k \in 1..(act_index - 1) :
                WellFormedActivity(properties["activities"][k])

C5_Witness ==
  /\ pc = "raised"
  /\ raised.line = 98
  /\ md = "closed"
  /\ act_index = 2
  /\ Has(properties, "parameters")
  /\ Len(act["dependsOn"]) > 0 \/ Len(properties["activities"][1]["dependsOn"]) > 0

\* --------------------------------------------------------------------- C6
\* the entries of dependsOn the loop has passed
Passed == SubSeq(act["dependsOn"], 1, dep_index)

WithDependencies(acts) ==
  {k \in DOMAIN acts : Len(acts[k]["dependsOn"]) > 0}

\* C6: when the loop over dependsOn has passed n entries of an activity, the
\* text ends with the lines of the activity, the 'Dependencies' label and
\* one line for each of the n entries in order (the name, the link '#' and
\* the name with hyphens for spaces, the first condition in parentheses),
\* and the diagram ends with the node of the activity and one edge for each
\* of them (from the entry's name to the activity's, underscores for
\* spaces); an activity with an empty dependsOn gets no label; the label is
\* written once for each activity that has dependencies.
C6_DependencyLinesAndEdges ==
  /\ pc = "for_dep" =>
       /\ EndsWith(Appended, ExpectedHead(act) \o <<DependenciesLabel>>
                        \o ExpectedDependencyLines(Passed))
       /\ EndsWith(mermaid_code, ExpectedNode(act) \o ExpectedEdges(Passed, act))
  /\ pc = "copy" =>
       /\ dep_index = Len(act["dependsOn"])
       /\ EndsWith(Appended, ExpectedHead(act) \o ExpectedDependencies(act))
       /\ EndsWith(mermaid_code,
                   ExpectedNode(act) \o ExpectedEdges(act["dependsOn"], act))
       /\ Count(DependenciesLabel, Appended)
            = Cardinality(WithDependencies(SubSeq(properties["activities"],
                                                  1, act_index)))

C6_Witness ==
  /\ pc = "copy"
  /\ act["name"] = <<"Run", " ", "Job">>
  /\ Len(act["dependsOn"]) = 2
  /\ act["dependsOn"][1]["activity"] = <<"Load", " ", "Data">>
  /\ Len(act["dependsOn"][1]["dependencyConditions"]) = 2

\* --------------------------------------------------------------------- C7
\* C7: the diagram written after the loop is the opening fence and
\* 'graph LR;', then for each activity in document order its node followed
\* by one edge for each entry of its dependsOn, then the closing fence; it
\* is written once, under the 'Activities Diagram' heading, also when there
\* is no activity.
C7_DiagramBlock ==
  /\ pc = "parameters" =>
       /\ mermaid_code = ExpectedBlock(properties["activities"])
       /\ EndsWith(Appended, <<DiagramHeading, "\n ">> \o mermaid_code)
  /\ pc \in {"parameters", "close", "returned"} =>
       /\ Count(DiagramHeading, Appended) = 1
       /\ properties["activities"] = <<>> =>
            mermaid_code = <<Fence, "mermaid\ngraph LR;\n", " ", Fence>>

C7_Witness ==
  /\ pc = "parameters"
  /\ Len(properties["activities"]) = 2
  /\ Len(properties["activities"][1]["dependsOn"]) = 2
  /\ Count(" --> ", mermaid_code) = 2

\* --------------------------------------------------------------------- C8
\* C8: a call that reaches md.close() has written, right after the closing
\* fence of the diagram, the 'Parameters' heading and the two header rows
\* when and only when properties has the key 'parameters' (an empty mapping
\* included), then one row |name|type|default| for each parameter in the
\* order of the mapping, with None for a missing 'defaultValue'.
C8_ParametersTable ==
  pc \in {"close", "returned"} =>
    LET table == ExpectedParameters(properties)
        rest  == SubSeq(Appended, 1, Len(Appended) - Len(table))
    IN /\ EndsWith(Appended, table)
       /\ rest # <<>> /\ rest[Len(rest)] = Fence
       /\ Count(ParametersHeading, rest) = 0
       /\ Count(ParametersHeading, Appended)
            = IF Has(properties, "parameters") THEN 1 ELSE 0
       /\ raised = NoError

C8_Witness ==
  /\ pc = "close"
  /\ Has(properties, "parameters")
  /\ Len(properties["parameters"]) = 2
  /\ ~Has(properties["parameters"][1][2], "defaultValue")
  /\ EndsWith(Appended, <<"|", "2021-01-01", "|">>)

\* --------------------------------------------------------------------- C9
Copies(acts) == {k \in DOMAIN acts : acts[k]["type"] = <<"Copy">>}

\* C9: when the loop has finished an activity, the text ends with the entry
\* of this activity: its Name, Type and Description lines, its dependency
\* lines and then, when and only when its type is "Copy", the
\* 'Data Source Type' line, the 'SQL Statement' label and the fenced query;
\* the exceptions of lines 93 to 98 only befall a Copy activity.
C9_CopySection ==
  /\ pc = "for_act" /\ act_index >= 1 =>
       /\ EndsWith(Appended, ExpectedEntry(act))
       /\ Appended = ExpectedSoFar \o ExpectedEntry(act)
       /\ Count(SourceTypeLabel, Appended)
            = Cardinality(Copies(SubSeq(properties["activities"], 1, act_index)))
  /\ pc = "raised" /\ raised.line \in {93, 94, 98} => act["type"] = <<"Copy">>

C9_Witness ==
  /\ pc = "for_act"
  /\ act_index = 2
  /\ act["type"] # <<"Copy">>
  /\ ~Has(act, "typeProperties")
  /\ properties["activities"][1]["type"] = <<"Copy">>
  /\ Len(properties["activities"][1]["dependsOn"]) > 0

\* -------------------------------------------------------------------- C10
\* C10: an activity without the key 'dependsOn' ends the call with the
\* KeyError of line 84, after its Name, Type and Description lines were
\* written and its node was added to the diagram, and nothing is written
\* after them; the activities the call gets past have the key, and those
\* among them with an empty dependsOn are the ones with no label.
C10_MissingDependsOn ==
  /\ InCall /\ act_index >= 1 /\ pc # "dependencies"
       /\ ~Has(act, "dependsOn") =>
       /\ pc = "raised"
       /\ raised = [type |-> "KeyError", line |-> 84]
       /\ Appended = ExpectedSoFar \o ExpectedHead(act)
       /\ mermaid_code = <<Fence, "mermaid\ngraph LR;\n">>
                          \o ExpectedGraph(Earlier) \o ExpectedNode(act)
       /\ Count(DiagramHeading, Appended) = 0
       /\ Count(ParametersHeading, Appended) = 0
  /\ pc = "raised" /\ raised.line = 84 => ~Has(act, "dependsOn")
  /\ pc = "copy" =>
       /\ Has(act, "dependsOn")
       /\ (act["dependsOn"] = <<>>)
            = (Count(DependenciesLabel,
                     SubSeq(Appended, Len(ExpectedSoFar) + 1, Len(Appended))) = 0)

C10_Witness ==
  /\ pc = "raised"
  /\ raised.line = 84
  /\ md = "closed"
  /\ act_index = 1
  /\ Len(properties["activities"]) = 2
  /\ Has(act, "description")
  /\ Has(properties, "parameters")
====
